---- MODULE Spec2Model ----
(***************************************************************************)
(* Model of olscraper.py: the stat extractor extract_stats_per_gear and    *)
(* the driver loop of main.                                                *)
(*                                                                         *)
(* Python values are tagged records [t, i, s]: t is the Python type, i the *)
(* integer payload, s the text payload (a sequence of one-character        *)
(* strings), so that 5, "5", None and a missing key are four different     *)
(* values and str()/int() are real conversions.                            *)
(***************************************************************************)
EXTENDS Integers, Sequences, FiniteSets, TLC

VARIABLES response, out, pc,
          players, units_map, player_idx, unit_idx, step,
          resp, out_rows, main_pc, fetch_log, trace

ext_vars == <<response, out, pc>>
main_vars == <<players, units_map, player_idx, unit_idx, step,
               resp, out_rows, main_pc, fetch_log, trace>>
vars == <<response, out, pc,
          players, units_map, player_idx, unit_idx, step,
          resp, out_rows, main_pc, fetch_log, trace>>

(***************************************************************************)
(* Bounds of the model.                                                    *)
(***************************************************************************)
\* longest state_effects list of a generated response
MaxEffects == 2
\* most function-detail records carried by a generated response, all effects together
MaxFuncs == 3
\* most populated equipment slots of a generated character record
MaxRefs == 2
\* most (player, unit) pairs of a generated roster * catalog
MaxPairs == 4

(***************************************************************************)
(* Python values and the two conversions the extractor applies.            *)
(***************************************************************************)
PyInt(n) == [t |-> "int", i |-> n, s |-> <<>>]
PyStr(cs) == [t |-> "str", i |-> 0, s |-> cs]
PyNone == [t |-> "None", i |-> 0, s |-> <<>>]
\* a key the dict does not have
Absent == [t |-> "absent", i |-> 0, s |-> <<>>]

Digits == <<"0", "1", "2", "3", "4", "5", "6", "7", "8", "9">>

IsDigit(c) == \E d \in 1..10 : Digits[d] = c

DigitVal(c) == (CHOOSE d \in 1..10 : Digits[d] = c) - 1

\* dict.get(key, default) on a scalar field
Get(v, default) == IF v.t = "absent" THEN default ELSE v

RECURSIVE NatText(_)
NatText(n) == IF n < 10 THEN <<Digits[n + 1]>>
              ELSE NatText(n \div 10) \o <<Digits[(n % 10) + 1]>>

IntText(n) == IF n < 0 THEN <<"-">> \o NatText(-n) ELSE NatText(n)

\* str(x)
py_str(v) == CASE v.t = "str" -> v
               [] v.t = "int" -> PyStr(IntText(v.i))
               [] OTHER -> PyStr(<<"N", "o", "n", "e">>)

RECURSIVE DigitsValue(_, _)
DigitsValue(cs, acc) == IF cs = <<>> THEN acc
                        ELSE DigitsValue(Tail(cs), 10 * acc + DigitVal(Head(cs)))

AllDigits(cs) == cs # <<>> /\ \A k \in 1..Len(cs) : IsDigit(cs[k])

\* int(x): [ok, i]; ok = FALSE stands for the ValueError / TypeError int() raises
py_int(v) ==
    CASE v.t = "int" -> [ok |-> TRUE, i |-> v.i]
      [] v.t = "str" ->
            IF v.s # <<>> /\ Head(v.s) \in {"-", "+"}
            THEN IF AllDigits(Tail(v.s))
                 THEN [ok |-> TRUE,
                       i |-> IF Head(v.s) = "-" THEN 0 - DigitsValue(Tail(v.s), 0)
                             ELSE DigitsValue(Tail(v.s), 0)]
                 ELSE [ok |-> FALSE, i |-> 0]
            ELSE IF AllDigits(v.s)
                 THEN [ok |-> TRUE, i |-> DigitsValue(v.s, 0)]
                 ELSE [ok |-> FALSE, i |-> 0]
      [] OTHER -> [ok |-> FALSE, i |-> 0]

(***************************************************************************)
(* f"{num / den:.2f}": the quotient rounded to two fractional digits       *)
(* (ties to even), a minus sign for a negative numerator, at least one     *)
(* digit before the point.  Exact for the magnitudes of the model, which   *)
(* are far below the 2^53 at which a float stops holding num / 100.        *)
(***************************************************************************)
Abs(n) == IF n < 0 THEN 0 - n ELSE n

Hundredths(num, den) ==
    LET q == (100 * Abs(num)) \div den
        r == (100 * Abs(num)) % den
    IN IF 2 * r > den \/ (2 * r = den /\ q % 2 = 1) THEN q + 1 ELSE q

py_format_2f(num, den) ==
    LET h == Hundredths(num, den)
    IN PyStr((IF num < 0 THEN <<"-">> ELSE <<>>)
             \o NatText(h \div 100)
             \o <<".", Digits[((h % 100) \div 10) + 1], Digits[(h % 10) + 1]>>)

\* the divisor of lines 119-121
StatScale == 100

scale_floor_division(total) == py_format_2f(total \div StatScale, 1)

\* f"{results[k] / 100:.2f}"
scale(total) == py_format_2f(total, StatScale)

(***************************************************************************)
(* The response structure.  A list or dict field is [t, ...] with t one of *)
(* "absent" (key missing), "None" (JSON null) and "list" / "dict".         *)
(***************************************************************************)
gear_keys == <<"arm_equip_option1_id", "arm_equip_option2_id", "arm_equip_option3_id",
               "leg_equip_option1_id", "leg_equip_option2_id", "leg_equip_option3_id",
               "head_equip_option1_id", "head_equip_option2_id", "head_equip_option3_id",
               "torso_equip_option1_id", "torso_equip_option2_id", "torso_equip_option3_id">>

GearKeySet == {gear_keys[k] : k \in 1..Len(gear_keys)}

List(items) == [t |-> "list", v |-> items]
NullList == [t |-> "None", v |-> <<>>]
AbsentList == [t |-> "absent", v |-> <<>>]

Func(ftype, fvalue) == [function_type |-> ftype, function_value |-> fvalue]
Effect(id, details) == [id |-> id, function_details |-> details]

\* a character record without any of the 12 fields, the {} of line 96
EmptyCharacter == [k \in GearKeySet |-> Absent]

Data(effects, characters) ==
    [t |-> "dict", state_effects |-> effects, character_details |-> characters]
NullData == [t |-> "None", state_effects |-> AbsentList, character_details |-> AbsentList]
AbsentData == [t |-> "absent", state_effects |-> AbsentList, character_details |-> AbsentList]
\* the {} default of response.get("data", {})
EmptyData == Data(AbsentList, AbsentList)

Response(code, data) == [t |-> "dict", code |-> code, data |-> data]
NoneResponse == [t |-> "None", code |-> Absent, data |-> AbsentData]
EmptyResponse == Response(Absent, AbsentData)

\* bool(response): None and the empty dict are falsy
Truthy(r) == r.t = "dict" /\ ~(r.code.t = "absent" /\ r.data.t = "absent")

(***************************************************************************)
(* extract_stats_per_gear, step by step as the code runs it.               *)
(***************************************************************************)
EmptyMap == [k \in {} |-> [ftype |-> "", val |-> 0]]

ZeroResults == [Attack |-> 0, ElementalDamage |-> 0, MaxAmmo |-> 0]

effect_map_put_first_wins(m, eid, d) ==
    IF eid \in DOMAIN m THEN m ELSE [k \in DOMAIN m \cup {eid} |-> IF k = eid THEN d ELSE m[k]]

\* effect_map[eid] = (ftype, val)
effect_map_put(m, eid, d) ==
    [k \in DOMAIN m \cup {eid} |-> IF k = eid THEN d ELSE m[k]]

\* val = int(func.get("function_value", 0)), 0 when int() raises
function_val(func) ==
    LET parsed == py_int(Get(func.function_value, PyInt(0)))
    IN IF parsed.ok THEN parsed.i ELSE 0

\* the inner loop over effect.get("function_details", [])
RECURSIVE scan_function_details(_, _, _)
scan_function_details(m, eid, funcs) ==
    IF funcs = <<>> THEN m
    ELSE scan_function_details(
             effect_map_put(m, eid, [ftype |-> Head(funcs).function_type,
                                     val |-> function_val(Head(funcs))]),
             eid, Tail(funcs))

\* the loop over state_effects; iterating a null function_details raises TypeError
RECURSIVE build_effect_map(_, _)
build_effect_map(m, effects) ==
    IF effects = <<>> THEN [raised |-> FALSE, map |-> m]
    ELSE LET effect == Head(effects)
             eid == Get(effect.id, PyNone)
         IN IF effect.function_details.t = "None"
            THEN [raised |-> TRUE, map |-> m]
            ELSE build_effect_map(
                     scan_function_details(m, eid, effect.function_details.v),
                     Tail(effects))

RECURSIVE Dedup(_)
Dedup(seq) == IF seq = <<>> THEN <<>>
              ELSE LET rest == Dedup(Tail(seq))
                   IN IF \E k \in 1..Len(rest) : rest[k] = Head(seq)
                      THEN rest ELSE <<Head(seq)>> \o rest

gear_eids_dedup(character) ==
    Dedup([k \in 1..Len(gear_keys) |-> py_str(Get(character[gear_keys[k]], PyNone))])

\* eid = str(character.get(key)) for each key of gear_keys, in order
gear_eids(character) ==
    [k \in 1..Len(gear_keys) |-> py_str(Get(character[gear_keys[k]], PyNone))]

accumulate_ammo_subtracts(results, ftype, val) ==
    CASE ftype = "StatAtk" -> [results EXCEPT !.Attack = @ + val]
      [] ftype = "IncElementDmg" -> [results EXCEPT !.ElementalDamage = @ + val]
      [] ftype = "StatAmmoLoad" -> [results EXCEPT !.MaxAmmo = @ - val]
      [] OTHER -> results

\* the if / elif chain of lines 110-115
accumulate(results, ftype, val) ==
    CASE ftype = "StatAtk" -> [results EXCEPT !.Attack = @ + val]
      [] ftype = "IncElementDmg" -> [results EXCEPT !.ElementalDamage = @ + val]
      [] ftype = "StatAmmoLoad" -> [results EXCEPT !.MaxAmmo = @ + val]
      [] OTHER -> results

\* the loop of lines 106-115
RECURSIVE sum_slots(_, _, _)
sum_slots(results, m, eids) ==
    IF eids = <<>> THEN results
    ELSE LET eid == Head(eids)
         IN sum_slots(IF eid \in DOMAIN m
                      THEN accumulate(results, m[eid].ftype, m[eid].val)
                      ELSE results,
                      m, Tail(eids))

Raised(m) == [status |-> "raised", Attack |-> PyNone, ElementalDamage |-> PyNone,
              MaxAmmo |-> PyNone, effect_map |-> m, results |-> ZeroResults]

Returned(a, e, x, m, totals) ==
    [status |-> "returned", Attack |-> a, ElementalDamage |-> e, MaxAmmo |-> x,
     effect_map |-> m, results |-> totals]

\* the call's outcome, with the locals effect_map and results as they stand at the end
extract_stats_per_gear(r) ==
    IF ~Truthy(r)
    THEN Returned(PyInt(0), PyInt(0), PyInt(0), EmptyMap, ZeroResults)
    ELSE
    LET data == IF r.data.t = "absent" THEN EmptyData ELSE r.data
    IN IF data.t = "None" THEN Raised(EmptyMap)
       ELSE
       LET state_effects == IF data.state_effects.t = "absent"
                            THEN List(<<>>) ELSE data.state_effects
       IN IF state_effects.t = "None" THEN Raised(EmptyMap)
          ELSE
          LET built == build_effect_map(EmptyMap, state_effects.v)
              details == IF data.character_details.t = "absent"
                         THEN List(<<EmptyCharacter>>) ELSE data.character_details
          IN IF built.raised \/ details.t = "None" \/ details.v = <<>>
             THEN Raised(built.map)
             ELSE
             LET totals == sum_slots(ZeroResults, built.map, gear_eids(details.v[1]))
             IN Returned(scale(totals.Attack), scale(totals.ElementalDamage),
                         scale(totals.MaxAmmo), built.map, totals)

(***************************************************************************)
(* The responses the extractor is called with.                             *)
(***************************************************************************)
Txt5 == PyStr(<<"5">>)
Txt6 == PyStr(<<"6">>)
TxtNone == PyStr(<<"N", "o", "n", "e">>)
Txt300 == PyStr(<<"3", "0", "0">>)
Txt500 == PyStr(<<"5", "0", "0">>)
Txt95 == PyStr(<<"9", "5">>)
TxtMinus250 == PyStr(<<"-", "2", "5", "0">>)
TxtAbc == PyStr(<<"a", "b", "c">>)

FuncAlphabet == {Func("StatAtk", Txt300), Func("StatAtk", TxtAbc),
                 Func("IncElementDmg", TxtMinus250), Func("StatAmmoLoad", PyInt(5))}

IdAlphabet == {Txt5, Txt6}

\* the number of function details of the first k effects
RECURSIVE DetailCount(_, _)
DetailCount(lens, k) == IF k = 0 THEN 0 ELSE DetailCount(lens, k - 1) + lens[k]

\* the effect list whose n-th entry has the id ids[n] and the next lens[n] records of fs
EffectList(lens, ids, fs) ==
    [n \in 1..Len(lens) |->
        Effect(ids[n], List([k \in 1..lens[n] |-> fs[DetailCount(lens, n - 1) + k]]))]

With(character, key, value) == [character EXCEPT ![key] = value]

CharacterA == With(With(EmptyCharacter, "arm_equip_option1_id", Txt5),
                   "leg_equip_option2_id", PyInt(6))

CharacterB == With(With(With(With(With(EmptyCharacter, "arm_equip_option1_id", Txt5),
                   "head_equip_option3_id", Txt5), "torso_equip_option1_id", Txt6),
                   "arm_equip_option2_id", PyNone), "leg_equip_option1_id", PyInt(6))

\* every effect list within the bounds, read through two fixed character records
TableResponse ==
    \E n \in 0..MaxEffects : \E lens \in [1..n -> 0..MaxFuncs] :
        /\ DetailCount(lens, n) <= MaxFuncs
        /\ \E ids \in [1..n -> IdAlphabet] :
           \E fs \in [1..DetailCount(lens, n) -> FuncAlphabet] :
           \E c \in {CharacterA, CharacterB} :
              response = Response(PyInt(0), Data(List(EffectList(lens, ids, fs)), List(<<c>>)))

SlotAlphabet == {Txt5, PyInt(6), PyNone}

EffectsA == <<Effect(Txt5, List(<<Func("StatAtk", Txt300)>>)),
              Effect(Txt6, List(<<Func("IncElementDmg", TxtMinus250)>>))>>

EffectsB == <<Effect(Txt5, List(<<Func("StatAmmoLoad", PyInt(5))>>)),
              Effect(TxtNone, List(<<Func("StatAtk", Txt500)>>))>>

EffectsC == <<Effect(PyInt(6), List(<<Func("StatAtk", Txt300)>>)),
              Effect(Txt6, List(<<Func("Other", Txt300)>>))>>

EffectsD == <<Effect(Absent, List(<<Func("StatAtk", Txt300)>>)),
              Effect(Txt5, List(<<Func("IncElementDmg", Txt95)>>))>>

\* every character record with at most MaxRefs of the 12 slot fields present, read
\* against four fixed effect lists
SlotResponse ==
    \E S \in SUBSET GearKeySet :
        /\ Cardinality(S) <= MaxRefs
        /\ \E f \in [S -> SlotAlphabet] :
           \E es \in {EffectsA, EffectsB, EffectsC, EffectsD} :
              response = Response(PyInt(0),
                                  Data(List(es),
                                       List(<<[k \in GearKeySet |->
                                                  IF k \in S THEN f[k] ELSE Absent]>>)))

\* absent and malformed responses
EdgeResponses ==
    {NoneResponse,
     EmptyResponse,
     Response(PyInt(0), AbsentData),
     Response(PyInt(0), NullData),
     Response(Absent, EmptyData),
     Response(PyInt(0), Data(AbsentList, List(<<CharacterA>>))),
     Response(PyInt(0), Data(NullList, List(<<CharacterA>>))),
     Response(PyInt(0), Data(List(EffectsA), AbsentList)),
     Response(PyInt(0), Data(List(EffectsB), AbsentList)),
     Response(PyInt(0), Data(List(EffectsA), NullList)),
     Response(PyInt(0), Data(List(EffectsA), List(<<>>))),
     Response(PyInt(0), Data(List(EffectsA), List(<<EmptyCharacter, CharacterB>>))),
     Response(PyInt(0), Data(List(EffectsA), List(<<CharacterB, EmptyCharacter>>))),
     Response(PyInt(0), Data(List(<<Effect(Txt5, AbsentList)>>), List(<<CharacterA>>))),
     Response(PyInt(0), Data(List(<<Effect(Txt5, NullList)>>), List(<<CharacterA>>))),
     Response(PyInt(0), Data(List(<<Effect(Absent, AbsentList)>>), List(<<CharacterA>>))),
     Response(PyInt(0), Data(List(<<Effect(Txt5, List(<<Func("StatAtk", Absent)>>))>>),
                             List(<<CharacterA>>))),
     Response(PyInt(0), Data(List(<<Effect(Txt5, List(<<Func("StatAtk", PyNone)>>))>>),
                             List(<<CharacterA>>)))}

(***************************************************************************)
(* The extractor as a state machine: one call on one response.             *)
(***************************************************************************)
NotCalled == [status |-> "pending", Attack |-> PyNone, ElementalDamage |-> PyNone,
              MaxAmmo |-> PyNone, effect_map |-> EmptyMap, results |-> ZeroResults]

MainIdle ==
    /\ players = <<>>
    /\ units_map = <<>>
    /\ player_idx = 0
    /\ unit_idx = 0
    /\ step = 0
    /\ resp = NoneResponse
    /\ out_rows = <<>>
    /\ main_pc = "idle"
    /\ fetch_log = <<>>
    /\ trace = <<>>

Init ==
    /\ \/ TableResponse
       \/ SlotResponse
       \/ response \in EdgeResponses
    /\ out = NotCalled
    /\ pc = "call"
    /\ MainIdle

Extract ==
    /\ pc = "call"
    /\ out' = extract_stats_per_gear(response)
    /\ pc' = "done"
    /\ UNCHANGED response
    /\ UNCHANGED main_vars

Next == Extract

Spec == Init /\ [][Next]_vars

(***************************************************************************)
(* Properties of the extractor (specification Spec).                       *)
(***************************************************************************)
TxtZero == PyStr(<<"0", ".", "0", "0">>)

StatNames == {"Attack", "ElementalDamage", "MaxAmmo"}

\* the function_type that feeds each stat
KindOf(stat) == CASE stat = "Attack" -> "StatAtk"
                  [] stat = "ElementalDamage" -> "IncElementDmg"
                  [] OTHER -> "StatAmmoLoad"

ReturnedFromDict == pc = "done" /\ out.status = "returned" /\ Truthy(response)

\* the character record a returning call reads
FirstCharacter ==
    IF response.data.t = "dict" /\ response.data.character_details.t = "list"
       /\ response.data.character_details.v # <<>>
    THEN response.data.character_details.v[1]
    ELSE EmptyCharacter

\* the effect entries a returning call scans
EffectEntries ==
    IF response.data.t = "dict" /\ response.data.state_effects.t = "list"
    THEN response.data.state_effects.v
    ELSE <<>>

TextForm(key) == py_str(Get(FirstCharacter[key], PyNone))

RECURSIVE FnSum(_, _)
FnSum(f, S) == IF S = {} THEN 0
               ELSE LET x == CHOOSE x \in S : TRUE IN f[x] + FnSum(f, S \ {x})

\* C1: for every non-null response, whatever is missing, null or empty inside it,
\* the call returns its three-key result and does not raise.
C1_NeverRaises ==
    (pc = "done" /\ response.t = "dict") => out.status = "returned"

\* C2: for an absent response (None or empty) the three returned stats are the
\* text "0.00", as for a well-formed response without matching data.
C2_AbsentResponseGivesZeroText ==
    (pc = "done" /\ ~Truthy(response))
        => /\ out.status = "returned"
           /\ \A stat \in StatNames : out[stat] = TxtZero

\* C5: when every one of the 12 slot fields of the first character record is absent
\* or null, the three stats are "0.00" whatever the state-effect list holds.
C5_NoSlotsGiveZero ==
    (ReturnedFromDict /\ \A key \in GearKeySet : FirstCharacter[key].t \in {"absent", "None"})
        => \A stat \in StatNames : out[stat] = TxtZero

\* how many of the 12 slots reference eid, in text form
Refs(eid) == Cardinality({key \in GearKeySet : TextForm(key) = eid})

\* C6: each unscaled total is the sum over the table's EffectIDs of the magnitude
\* times the number of slots referencing it, counting only descriptors of the stat's
\* kind: k references give k times the magnitude, the slot's position is irrelevant,
\* unmatched references and other kinds add nothing.
C6_TotalsSumPerSlot ==
    ReturnedFromDict =>
        \A stat \in StatNames :
            out.results[stat] =
                FnSum([eid \in DOMAIN out.effect_map |->
                          IF out.effect_map[eid].ftype = KindOf(stat)
                          THEN Refs(eid) * out.effect_map[eid].val ELSE 0],
                      DOMAIN out.effect_map)

C6_Witness ==
    /\ ReturnedFromDict
    /\ \E eid \in DOMAIN out.effect_map :
          /\ Refs(eid) >= 2
          /\ out.effect_map[eid].ftype = "StatAtk"
          /\ out.effect_map[eid].val = 300
    /\ \E key \in GearKeySet :
          FirstCharacter[key].t = "int" /\ TextForm(key) \in DOMAIN out.effect_map
    /\ out.results.Attack = 600
    /\ out.Attack = PyStr(<<"6", ".", "0", "0">>)

\* the entries that write the table: those with at least one function detail
Writers(entries) == {n \in 1..Len(entries) :
                        entries[n].function_details.t = "list"
                        /\ entries[n].function_details.v # <<>>}

KeyOf(entries, n) == Get(entries[n].id, PyNone)

IsNumeral(v) ==
    \/ v.t = "int"
    \/ /\ v.t = "str"
       /\ v.s # <<>>
       /\ \A k \in 1..Len(v.s) : IsDigit(v.s[k]) \/ (k = 1 /\ v.s[k] \in {"-", "+"})
       /\ \E k \in 1..Len(v.s) : IsDigit(v.s[k])

Magnitude(v) == IF v.t = "absent" \/ ~IsNumeral(v) THEN 0 ELSE py_int(v).i

\* the descriptor of the last function detail of the last entry that writes key
LastWrite(entries, writers, key) ==
    LET n == CHOOSE n \in writers :
                 /\ KeyOf(entries, n) = key
                 /\ \A o \in writers : KeyOf(entries, o) = key => o <= n
        details == entries[n].function_details.v
        last == details[Len(details)]
    IN [ftype |-> last.function_type, val |-> Magnitude(last.function_value)]

LastWriteTable(entries) ==
    LET writers == Writers(entries)
    IN [key \in {KeyOf(entries, n) : n \in writers} |-> LastWrite(entries, writers, key)]

\* what the slot holding eid adds to stat under table
SlotAmount(table, eid, stat) ==
    IF eid \in DOMAIN table /\ table[eid].ftype = KindOf(stat) THEN table[eid].val ELSE 0

\* C7: the table is last-write-wins in array order (last function detail of an
\* entry, last entry of an EffectID, unparsable magnitude 0), and the totals are the
\* ones that final table gives.
C7_LastWriteWins ==
    ReturnedFromDict =>
        LET entries == EffectEntries
            character == FirstCharacter
            table == LastWriteTable(entries)
        IN /\ out.effect_map = table
           /\ \A stat \in StatNames :
                 out.results[stat] =
                     FnSum([k \in 1..Len(gear_keys) |->
                               SlotAmount(table,
                                          py_str(Get(character[gear_keys[k]], PyNone)),
                                          stat)],
                           1..Len(gear_keys))

C7_Witness ==
    /\ ReturnedFromDict
    /\ \E n, o \in Writers(EffectEntries) :
          /\ n < o
          /\ KeyOf(EffectEntries, n) = KeyOf(EffectEntries, o)
          /\ Len(EffectEntries[o].function_details.v) >= 2
          /\ Refs(KeyOf(EffectEntries, o)) >= 1
          /\ EffectEntries[n].function_details.v[1] = Func("StatAtk", Txt300)
          /\ EffectEntries[o].function_details.v[1] = Func("IncElementDmg", TxtMinus250)
          /\ EffectEntries[o].function_details.v[2] = Func("StatAtk", TxtAbc)
          /\ out.effect_map[KeyOf(EffectEntries, o)] = [ftype |-> "StatAtk", val |-> 0]
    /\ out.Attack = TxtZero
    /\ out.ElementalDamage = TxtZero

TwoDigits(n) == <<Digits[(n \div 10) + 1], Digits[(n % 10) + 1]>>

C10_NonNegative ==
    ReturnedFromDict =>
        \A stat \in StatNames : out.results[stat] >= 0 /\ Head(out[stat].s) # "-"

\* C10 amended: a total is negative only if some slot references a descriptor of its
\* kind with a negative magnitude; otherwise it is non-negative and renders unsigned.
C10_NegativeOnlyFromNegativeMagnitude ==
    ReturnedFromDict =>
        \A stat \in StatNames :
            (out.results[stat] < 0 \/ Head(out[stat].s) = "-")
                => \E key \in GearKeySet :
                      /\ TextForm(key) \in DOMAIN out.effect_map
                      /\ out.effect_map[TextForm(key)].ftype = KindOf(stat)
                      /\ out.effect_map[TextForm(key)].val < 0

C10_Witness ==
    /\ ReturnedFromDict
    /\ \E eid \in DOMAIN out.effect_map :
          out.effect_map[eid].ftype = "IncElementDmg" /\ out.effect_map[eid].val < 0
          /\ Refs(eid) = 0
    /\ out.results.ElementalDamage = 0
    /\ out.results.Attack > 0
    /\ out.results.MaxAmmo = 0

(***************************************************************************)
(* main: the loop over players x sorted(units_map.items()).                *)
(* players is the list load_players_csv returns; units_map is the dict     *)
(* load_units_csv returns, held as its items in insertion order.           *)
(***************************************************************************)
PlayerAlphabet == {[Player |-> "P1", intl_open_id |-> "X1"],
                   [Player |-> "P2", intl_open_id |-> "X2"]}

UnitAlphabet == {[code |-> 7, name |-> "Alpha"],
                 [code |-> 3, name |-> "Gamma"],
                 [code |-> 11, name |-> "Beta"]}

\* insert item into a list already sorted by code
RECURSIVE InsertByCode(_, _)
InsertByCode(item, sorted) ==
    IF sorted = <<>> THEN <<item>>
    ELSE IF item.code < Head(sorted).code THEN <<item>> \o sorted
         ELSE <<Head(sorted)>> \o InsertByCode(item, Tail(sorted))

RECURSIVE SortByCode(_)
SortByCode(items) ==
    IF items = <<>> THEN <<>> ELSE InsertByCode(Head(items), SortByCode(Tail(items)))

items_in_insertion_order(items) == items

\* sorted(units_map.items())
sorted_items(items) == SortByCode(items)

accepts_any_code(r) == Truthy(r)

\* resp and resp.get("code") == 0
accepts(r) == Truthy(r) /\ r.code.t = "int" /\ r.code.i = 0

after_branch_skips_pause_on_failure(r) == IF accepts(r) THEN "sleep" ELSE "loop"

\* the statement both branches of lines 145-163 continue with: time.sleep of line 165
after_branch(r) == "sleep"

\* what call_character_details can return: None after a RequestException, a response
\* with a non-zero code, a well-formed response, a response without character record
FailedFetch == NoneResponse

NonZeroStatus == Response(PyInt(1), AbsentData)

GoodResponse ==
    Response(PyInt(0),
             Data(List(<<Effect(Txt5, List(<<Func("StatAtk",
                                                  PyStr(<<"1", "0", "0", "0">>))>>))>>),
                  List(<<With(EmptyCharacter, "arm_equip_option1_id", Txt5)>>)))

NoCharacterResponse == Response(PyInt(0), Data(List(EffectsA), List(<<>>)))

FetchResults == {FailedFetch, NonZeroStatus, GoodResponse, NoCharacterResponse}

Row(player, unit, a, e, x) ==
    [Player |-> player, Unit |-> unit, Attack |-> a, ElementalDamage |-> e, MaxAmmo |-> x]

MainInit ==
    /\ response = NoneResponse
    /\ out = NotCalled
    /\ pc = "idle"
    /\ \E np \in 0..MaxPairs : \E nu \in 0..Cardinality(UnitAlphabet) :
          /\ np * nu <= MaxPairs
          /\ players \in [1..np -> PlayerAlphabet]
          /\ units_map \in {u \in [1..nu -> UnitAlphabet] :
                               \A a, b \in 1..nu : a # b => u[a].code # u[b].code}
    /\ player_idx = 1
    /\ unit_idx = 0
    /\ step = 0
    /\ resp = NoneResponse
    /\ out_rows = <<>>
    /\ main_pc = "loop"
    /\ fetch_log = <<>>
    /\ trace = <<>>

\* the two for statements: take the next (player, unit) pair, or leave the loops and
\* write out_rows
LoopNext ==
    /\ main_pc = "loop"
    /\ IF players # <<>> /\ units_map # <<>>
          /\ (unit_idx < Len(units_map) \/ player_idx < Len(players))
       THEN /\ IF unit_idx < Len(units_map)
               THEN unit_idx' = unit_idx + 1 /\ UNCHANGED player_idx
               ELSE unit_idx' = 1 /\ player_idx' = player_idx + 1
            /\ step' = step + 1
            /\ main_pc' = "call"
       ELSE /\ main_pc' = "done"
            /\ UNCHANGED <<player_idx, unit_idx, step>>
    /\ UNCHANGED <<players, units_map, resp, out_rows, fetch_log, trace>>
    /\ UNCHANGED ext_vars

\* lines 144-163: one call of call_character_details and the row it leads to; an
\* exception of extract_stats_per_gear leaves main
CallAndRecord ==
    /\ main_pc = "call"
    /\ \E r \in FetchResults :
          LET player == players[player_idx]
              unit == sorted_items(units_map)[unit_idx]
              stats == extract_stats_per_gear(r)
          IN /\ resp' = r
             /\ fetch_log' = Append(fetch_log, [intl_open_id |-> player.intl_open_id,
                                                name_code |-> unit.code,
                                                result |-> r])
             /\ trace' = Append(trace, "fetch")
             /\ IF accepts(r)
                THEN IF stats.status = "raised"
                     THEN main_pc' = "crashed" /\ UNCHANGED out_rows
                     ELSE /\ out_rows' = Append(out_rows,
                                                Row(player.Player, unit.name, stats.Attack,
                                                    stats.ElementalDamage, stats.MaxAmmo))
                          /\ main_pc' = after_branch(r)
                ELSE /\ out_rows' = Append(out_rows,
                                           Row(player.Player, unit.name,
                                               PyNone, PyNone, PyNone))
                     /\ main_pc' = after_branch(r)
    /\ UNCHANGED <<players, units_map, player_idx, unit_idx, step>>
    /\ UNCHANGED ext_vars

\* line 165: time.sleep(SLEEP_BETWEEN_REQUESTS)
Sleep ==
    /\ main_pc = "sleep"
    /\ trace' = Append(trace, "sleep")
    /\ main_pc' = "loop"
    /\ UNCHANGED <<players, units_map, player_idx, unit_idx, step, resp, out_rows, fetch_log>>
    /\ UNCHANGED ext_vars

MainNext == LoopNext \/ CallAndRecord \/ Sleep

MainSpec == MainInit /\ [][MainNext]_vars

(***************************************************************************)
(* Properties of the driver (specification MainSpec).                      *)
(***************************************************************************)
StatCells(row) == {row.Attack, row.ElementalDamage, row.MaxAmmo}

\* digits, a point, two digits, with an optional leading minus sign
IsTwoDecimalText(v) ==
    /\ v.t = "str"
    /\ LET n == Len(v.s)
           first == IF n > 0 /\ v.s[1] = "-" THEN 2 ELSE 1
       IN /\ n - 3 >= first
          /\ v.s[n - 2] = "."
          /\ IsDigit(v.s[n - 1]) /\ IsDigit(v.s[n])
          /\ \A k \in first..(n - 3) : IsDigit(v.s[k])

FetchRefused(r) == r.t = "None" \/ r.code.t # "int" \/ r.code.i # 0

\* C3: the three stat cells of a row are all the null marker exactly when that pair's
\* fetch returned None or a response whose code is not 0; otherwise all three are
\* two-decimal texts; no row mixes the two and no refused fetch is recorded as "0.00".
C3_NullRowIffFetchRefused ==
    /\ Len(out_rows) <= Len(fetch_log)
    /\ \A n \in 1..Len(out_rows) :
          IF FetchRefused(fetch_log[n].result)
          THEN StatCells(out_rows[n]) = {PyNone}
          ELSE \A cell \in StatCells(out_rows[n]) : IsTwoDecimalText(cell)

C3_Witness ==
    /\ Len(out_rows) = 3
    /\ fetch_log[1].result = FailedFetch
    /\ StatCells(out_rows[1]) = {PyNone}
    /\ fetch_log[2].result = NonZeroStatus
    /\ StatCells(out_rows[2]) = {PyNone}
    /\ fetch_log[3].result = GoodResponse
    /\ out_rows[3].Attack = PyStr(<<"1", "0", ".", "0", "0">>)
    /\ out_rows[3].ElementalDamage = TxtZero
    /\ out_rows[3].MaxAmmo = TxtZero

\* the catalog item with exactly u - 1 items of smaller code
ItemOfRank(u) ==
    CHOOSE item \in {units_map[k] : k \in 1..Len(units_map)} :
        Cardinality({k \in 1..Len(units_map) : units_map[k].code < item.code}) = u - 1

\* C4: when the run finishes there has been exactly one fetch per (player, unit) pair
\* and the table holds exactly one row per pair, players in registry order and,
\* within a player, units by ascending code, whatever the fetches returned.
C4_OneRowPerPairInOrder ==
    main_pc = "done" =>
        LET np == Len(players)
            nu == Len(units_map)
        IN /\ Len(out_rows) = np * nu
           /\ Len(fetch_log) = np * nu
           /\ \A p \in 1..np : \A u \in 1..nu :
                 LET n == (p - 1) * nu + u
                 IN /\ out_rows[n].Player = players[p].Player
                    /\ out_rows[n].Unit = ItemOfRank(u).name
                    /\ fetch_log[n].intl_open_id = players[p].intl_open_id
                    /\ fetch_log[n].name_code = ItemOfRank(u).code

C4_Witness ==
    /\ main_pc = "done"
    /\ Len(players) = 2
    /\ players[1].Player = "P2"
    /\ players[2].Player = "P1"
    /\ units_map = <<[code |-> 7, name |-> "Alpha"], [code |-> 3, name |-> "Gamma"]>>
    /\ fetch_log[1].result = FailedFetch
    /\ fetch_log[2].result = NonZeroStatus
    /\ Len(out_rows) = 4
    /\ out_rows[1].Unit = "Gamma"
    /\ out_rows[4].Player = "P1"
    /\ out_rows[4].Unit = "Alpha"

\* C8: every call is followed by the pause before the next call is issued, on the
\* failure branch as on the success branch: calls and pauses alternate, and once a
\* row has been recorded and the loop goes on, the pause of that call has run.
C8_PauseAfterEveryCall ==
    /\ \A n \in 1..Len(trace) :
          trace[n] = (IF n % 2 = 1 THEN "fetch" ELSE "sleep")
    /\ main_pc \in {"loop", "call", "done"} => Len(trace) = 2 * Len(out_rows)
    /\ main_pc = "sleep" => Len(trace) = 2 * Len(out_rows) - 1

C8_Witness ==
    /\ Len(trace) = 5
    /\ fetch_log[1].result = FailedFetch
    /\ fetch_log[2].result = GoodResponse
    /\ fetch_log[3].result = NonZeroStatus
    /\ trace = <<"fetch", "sleep", "fetch", "sleep", "fetch">>
    /\ main_pc = "sleep"

====
